---- MODULE Spec2Model ----
(***************************************************************************)
(* A model of swift3/acl_handlers.py: the ACL handlers that authorize an   *)
(* S3 request against the ACLs kept by the Swift backend.                  *)
(*                                                                         *)
(* One behaviour of the model is the handling of one request by one        *)
(* handler: the handler is constructed (__init__), handle_acl dispatches   *)
(* to the method named after the verb or to _handle_acl, and the method    *)
(* runs.  Every backend call (Request.get_acl_response) is appended to     *)
(* `calls`, every permission evaluation (ACL.check_permission) to          *)
(* `checks`.                                                               *)
(*                                                                         *)
(* Python's None is the empty tuple and a present value x is <<x>>, so     *)
(* that `x is None` and the value "" stay apart.  Names are strings.       *)
(* The `headers` argument of the handlers is passed through to the object  *)
(* probe unread; the model records only whether a probe carried headers.   *)
(***************************************************************************)
EXTENDS Integers, Sequences, FiniteSets, TLC

\* Bounds of the model.
\* Container names carry up to MaxSuffixes upload-session suffixes.
MaxSuffixes == 2
\* User ids are u1 .. uNumUsers.
NumUsers == 2

None == <<>>
Some(x) == <<x>>
OrElse(o, d) == IF o = None THEN d ELSE o[1]

VERBS == {"HEAD", "GET", "PUT", "POST", "DELETE"}
RESOURCES == {"container", "object"}

\* swift3.utils.MULTIUPLOAD_SUFFIX
MULTIUPLOAD_SUFFIX == "+segments"

\* Every trailing suffix stripped, not one.
RECURSIVE StripSuffix_all(_)
StripSuffix_all(s) ==
    IF /\ Len(s) > Len(MULTIUPLOAD_SUFFIX)
       /\ SubSeq(s, Len(s) - Len(MULTIUPLOAD_SUFFIX) + 1, Len(s)) = MULTIUPLOAD_SUFFIX
    THEN StripSuffix_all(SubSeq(s, 1, Len(s) - Len(MULTIUPLOAD_SUFFIX)))
    ELSE s

\* s[:-len(suffix)]
StripSuffix(s) ==
    IF Len(s) > Len(MULTIUPLOAD_SUFFIX)
    THEN SubSeq(s, 1, Len(s) - Len(MULTIUPLOAD_SUFFIX))
    ELSE ""

\* s.endswith(suffix)
EndsWith(s, suffix) ==
    /\ Len(s) >= Len(suffix)
    /\ SubSeq(s, Len(s) - Len(suffix) + 1, Len(s)) = suffix

RECURSIVE Suffixes(_)
Suffixes(k) == IF k = 0 THEN "" ELSE Suffixes(k - 1) \o MULTIUPLOAD_SUFFIX

BaseName == "bucket"
ContainerNames == {""} \cup {BaseName \o Suffixes(k) : k \in 0..MaxSuffixes}
ObjectNames == {"", "obj"}
Users == {"u" \o ToString(i) : i \in 1..NumUsers}

(***************************************************************************)
(* The ACL value object (swift3.subresource): an owner and grants.         *)
(***************************************************************************)
PERMISSIONS == {"READ", "WRITE", "READ_ACP", "WRITE_ACP", "FULL_CONTROL"}
\* Owner(None, None): the owner of an ACL that is not there.
NoOwner == ""
EmptyAcl == [owner |-> NoOwner, grants |-> {}]
\* The grants an ACL of the backend may hold: none, or one grant to a user.
Grantee == "u1"
GrantSets == {{}} \cup {{[grantee |-> Grantee, permission |-> p]} : p \in PERMISSIONS}
BackendAcls == {[owner |-> o, grants |-> g] : o \in Users, g \in GrantSets}

\* ACL.check_permission: the owner holds every permission; otherwise a grant
\* to the user of the permission or of FULL_CONTROL.
Allowed(acl, user, permission) ==
    \/ acl.owner # NoOwner /\ acl.owner = user
    \/ /\ permission \in PERMISSIONS
       /\ \E g \in acl.grants :
            g.grantee = user /\ g.permission \in {permission, "FULL_CONTROL"}

\* ACL.check_owner: the ACL's owner id is the given one.
OwnerIs(acl, id) == acl.owner = id

\* The response to a probe of a container (obj = "") or of an object.
ContainerResp(acl) == [bucket_acl |-> acl, object_acl |-> EmptyAcl]
ObjectResp(acl) == [bucket_acl |-> EmptyAcl, object_acl |-> acl]
ProbeResp(o, acl) == IF o = "" THEN ContainerResp(acl) ELSE ObjectResp(acl)

(***************************************************************************)
(* ACL_MAP                                                                 *)
(***************************************************************************)
\* ACL_MAP with GET Service checked for READ, not OWNER.
ACL_MAP_service_read ==
    (<<"HEAD", "HEAD", "container">> :> [Permission |-> "READ"]) @@
    (<<"GET", "HEAD", "container">> :> [Permission |-> "READ"]) @@
    (<<"GET", "GET", "container">> :> [Permission |-> "READ"]) @@
    (<<"PUT", "HEAD", "container">> :> [Permission |-> "WRITE"]) @@
    (<<"DELETE", "DELETE", "container">> :> [Permission |-> "OWNER"]) @@
    (<<"HEAD", "HEAD", "object">> :> [Permission |-> "READ"]) @@
    (<<"GET", "GET", "object">> :> [Permission |-> "READ"]) @@
    (<<"PUT", "HEAD", "object">> :> [Permission |-> "READ"]) @@
    (<<"POST", "PUT", "container">> :> [Permission |-> "WRITE"]) @@
    (<<"DELETE", "HEAD", "container">> :> [Permission |-> "WRITE"]) @@
    (<<"DELETE", "DELETE", "object">> :>
        [Resource |-> "container", Permission |-> "WRITE"]) @@
    (<<"POST", "HEAD", "container">> :> [Permission |-> "WRITE"])

ACL_MAP ==
    (<<"HEAD", "HEAD", "container">> :> [Permission |-> "READ"]) @@
    (<<"GET", "HEAD", "container">> :> [Permission |-> "OWNER"]) @@
    (<<"GET", "GET", "container">> :> [Permission |-> "READ"]) @@
    (<<"PUT", "HEAD", "container">> :> [Permission |-> "WRITE"]) @@
    (<<"DELETE", "DELETE", "container">> :> [Permission |-> "OWNER"]) @@
    (<<"HEAD", "HEAD", "object">> :> [Permission |-> "READ"]) @@
    (<<"GET", "GET", "object">> :> [Permission |-> "READ"]) @@
    (<<"PUT", "HEAD", "object">> :> [Permission |-> "READ"]) @@
    (<<"POST", "PUT", "container">> :> [Permission |-> "WRITE"]) @@
    (<<"DELETE", "HEAD", "container">> :> [Permission |-> "WRITE"]) @@
    (<<"DELETE", "DELETE", "object">> :>
        [Resource |-> "container", Permission |-> "WRITE"]) @@
    (<<"POST", "HEAD", "container">> :> [Permission |-> "WRITE"])

\* `key in ACL_MAP` and ACL_MAP[key]: the rule of a key, None when absent.
Lookup(key) == IF key \in DOMAIN ACL_MAP THEN Some(ACL_MAP[key]) ELSE None

\* The rule's 'Resource' ignored.
RuleResource_given(rule, resource) == resource

\* acl_check.get('Resource') or resource
RuleResource(rule, resource) ==
    IF "Resource" \in DOMAIN rule THEN rule.Resource ELSE resource

VARIABLES
    pc,             \* position of the request's handling
    controller_name,\* the name get_acl_handler was called with
    klass,          \* the handler class get_acl_handler selected
    reqMethod,      \* req.environ['REQUEST_METHOD']
    reqContainer,   \* req.container_name ("" when there is none)
    reqObject,      \* req.object_name ("" when there is none)
    user_id,        \* req.user_id
    given,          \* the container the handler was constructed on
    container,      \* self.container
    obj,            \* self.obj
    check_copy_src, \* PartAclHandler.check_copy_src
    method,         \* the verb handle_acl dispatches on
    frame,          \* the arguments of the pending _handle_acl call
    calls,          \* the backend calls issued, in order
    checks,         \* the permission checks made, in order
    lookup,         \* the ACL_MAP lookup _handle_acl made
    b_resp,         \* S3AclHandler.PUT's b_resp
    resp,           \* what _handle_acl returned to the method that called it
    hdr,            \* the ACL grants of the request headers, once read
    body,           \* the request body, once read
    req_acl,        \* the method's local req_acl
    bucket_acl,     \* req.bucket_acl
    object_acl,     \* req.object_acl
    result,         \* "running", "return" or the error raised
    retval          \* the value handle_acl returned

vars == <<pc, controller_name, klass, reqMethod, reqContainer, reqObject, user_id, given,
          container, obj,
          check_copy_src, method, frame, calls, checks, lookup, b_resp, resp,
          hdr, body, req_acl, bucket_acl, object_acl, result, retval>>

reqVars == <<controller_name, klass, reqMethod, reqContainer, reqObject, user_id>>
selfVars == <<given, container, obj, check_copy_src>>
inputVars == <<hdr, body>>
aclVars == <<req_acl, bucket_acl, object_acl>>

CLASSES == {"Base", "Bucket", "Object", "S3Acl", "MultiObjectDelete",
            "MultiUpload", "Part", "Uploads", "Upload"}

\* The verb methods each handler class defines, and its parent class.
Defines ==
    [Base |-> {}, Bucket |-> {"PUT"}, Object |-> {"PUT"},
     S3Acl |-> {"GET", "PUT", "POST"}, MultiObjectDelete |-> {"DELETE"},
     MultiUpload |-> {"HEAD"}, Part |-> {"HEAD"}, Uploads |-> {"GET", "PUT"},
     Upload |-> {"HEAD"}]
Parent ==
    [Base |-> "", Bucket |-> "Base", Object |-> "Base", S3Acl |-> "Base",
     MultiObjectDelete |-> "Base", MultiUpload |-> "Base",
     Part |-> "MultiUpload", Uploads |-> "MultiUpload", Upload |-> "MultiUpload"]

\* getattr(self, method): the method the class or an ancestor defines, as
\* "Class.VERB"; "" when hasattr(self, method) is false.
RECURSIVE Attr(_, _)
Attr(k, m) ==
    IF k = "" THEN ""
    ELSE IF m \in Defines[k] THEN k \o "." \o m
    ELSE Attr(Parent[k], m)

\* The classes whose handle_acl is MultiUploadAclHandler's.
MultiUploadFamily == {"MultiUpload", "Part", "Uploads", "Upload"}

\* handler.__name__
TypeName ==
    [Base |-> "BaseAclHandler", Bucket |-> "BucketAclHandler",
     Object |-> "ObjectAclHandler", S3Acl |-> "S3AclHandler",
     MultiObjectDelete |-> "MultiObjectDeleteAclHandler",
     MultiUpload |-> "MultiUploadAclHandler", Part |-> "PartAclHandler",
     Uploads |-> "UploadsAclHandler", Upload |-> "UploadAclHandler"]

\* base_klass.__subclasses__(): the direct subclasses, in definition order.
Subclasses(base_klass) ==
    IF base_klass = "Base"
    THEN <<"Bucket", "Object", "S3Acl", "MultiObjectDelete", "MultiUpload">>
    ELSE IF base_klass = "MultiUpload" THEN <<"Part", "Uploads", "Upload">>
    ELSE <<>>

\* name[:-n]
DropLast(name, n) ==
    IF Len(name) > n THEN SubSeq(name, 1, Len(name) - n) ELSE ""

\* The suffix length with no special case for S3AclHandler.
handler_suffix_len_uniform(handler) == Len("AclHandler")

\* len('AclHandler') if not handler.__name__ == 'S3AclHandler' else
\* len('Hanlder')
handler_suffix_len(handler) ==
    IF TypeName[handler] # "S3AclHandler" THEN Len("AclHandler")
    ELSE Len("Hanlder")

\* The first handler of the sequence whose name without its suffix is the
\* controller's name; "" when there is none.
RECURSIVE FirstHandler(_, _)
FirstHandler(handlers, name) ==
    IF handlers = <<>> THEN ""
    ELSE IF DropLast(TypeName[Head(handlers)], handler_suffix_len(Head(handlers)))
            = name
         THEN Head(handlers)
    ELSE FirstHandler(Tail(handlers), name)

\* get_acl_handler(controller_name)
get_acl_handler(name) ==
    IF FirstHandler(Subclasses("Base"), name) # ""
    THEN FirstHandler(Subclasses("Base"), name)
    ELSE IF FirstHandler(Subclasses("MultiUpload"), name) # ""
         THEN FirstHandler(Subclasses("MultiUpload"), name)
    ELSE "Base"

\* The controllers' names: one per handler class, and names no handler is
\* written for.
ControllerNames ==
    {"Bucket", "Object", "S3Acl", "MultiObjectDelete", "MultiUpload", "Part",
     "Uploads", "Upload", "Service", "S3", "Base"}

(***************************************************************************)
(* Request inputs read while a method runs.                                *)
(***************************************************************************)
\* The grantee a canned ACL names for the owner of the bucket.
BucketOwner == "bucket-owner"

\* The request headers: whether they carry ACL grants, and the grants.
HeaderValues ==
    {[acl |-> FALSE, grants |-> {}],
     [acl |-> TRUE, grants |-> {[grantee |-> "AllUsers", permission |-> "READ"],
                                [grantee |-> BucketOwner,
                                 permission |-> "FULL_CONTROL"]}]}

\* The grants of the headers, the bucket owner's grant made out to
\* bucket_owner.
HeaderGrants(h, bucket_owner) ==
    {[grantee |-> IF g.grantee = BucketOwner THEN bucket_owner ELSE g.grantee,
      permission |-> g.permission] : g \in h.grants}

\* The request body, by what parsing it does: empty, a valid ACL document
\* with its owner id, or the exception fromstring / ACL.from_elem raise.
BodyValues ==
    {[kind |-> "empty", owner |-> NoOwner]}
    \cup {[kind |-> "valid", owner |-> u] : u \in Users}
    \cup {[kind |-> k, owner |-> NoOwner] :
            k \in {"XMLSyntaxError", "DocumentInvalid", "Exception"}}

\* ACL.from_headers(headers, bucket_owner, object_owner, as_private): the ACL
\* of the grant headers, owned by the object owner or else the bucket owner,
\* its grants to the bucket owner naming bucket_owner;
\* without grant headers a private ACL, or None when as_private is False.
from_headers(h, bucket_owner, object_owner, as_private) ==
    IF h.acl
    THEN Some([owner |-> OrElse(object_owner, bucket_owner),
               grants |-> HeaderGrants(h, bucket_owner)])
    ELSE IF as_private
         THEN Some([owner |-> OrElse(object_owner, bucket_owner), grants |-> {}])
         ELSE None

\* MissingSecurityHeader(msg, missing_header_name=...)
MissingSecurityHeader(missing_header_name) ==
    "MissingSecurityHeader: " \o missing_header_name

Ok(acl) == [err |-> "", acl |-> acl]
Err(e) == [err |-> e, acl |-> None]

\* get_acl that prefers the header ACL to a body instead of rejecting both.
get_acl_merge(h, b, bucket_owner, object_owner) ==
    LET acl == from_headers(h, bucket_owner, object_owner, FALSE)
    IN  IF acl = None
        THEN IF b.kind = "empty" THEN Err(MissingSecurityHeader("x-amz-acl"))
             ELSE IF b.kind \in {"XMLSyntaxError", "DocumentInvalid"}
                  THEN Err("MalformedACLError")
             ELSE IF b.kind = "valid"
                  THEN Ok(Some([owner |-> b.owner, grants |-> {}]))
             ELSE Err(b.kind)
        ELSE Ok(acl)

\* get_acl that catches XMLSyntaxError alone.
get_acl_syntax_only(h, b, bucket_owner, object_owner) ==
    LET acl == from_headers(h, bucket_owner, object_owner, FALSE)
    IN  IF acl = None
        THEN IF b.kind = "empty" THEN Err(MissingSecurityHeader("x-amz-acl"))
             ELSE IF b.kind = "XMLSyntaxError" THEN Err("MalformedACLError")
             ELSE IF b.kind = "valid"
                  THEN Ok(Some([owner |-> b.owner, grants |-> {}]))
             ELSE Err(b.kind)
        ELSE IF b.kind # "empty" THEN Err("UnexpectedContent")
             ELSE Ok(acl)

\* get_acl that parses the body without testing it for emptiness.
get_acl_parse_empty(h, b, bucket_owner, object_owner) ==
    LET acl == from_headers(h, bucket_owner, object_owner, FALSE)
    IN  IF acl = None
        THEN IF b.kind \in {"empty", "XMLSyntaxError", "DocumentInvalid"}
             THEN Err("MalformedACLError")
             ELSE IF b.kind = "valid"
                  THEN Ok(Some([owner |-> b.owner, grants |-> {}]))
             ELSE Err(b.kind)
        ELSE IF b.kind # "empty" THEN Err("UnexpectedContent")
             ELSE Ok(acl)

\* get_acl(headers, body, bucket_owner, object_owner)
get_acl(h, b, bucket_owner, object_owner) ==
    LET acl == from_headers(h, bucket_owner, object_owner, FALSE)
    IN  IF acl = None
        THEN IF b.kind = "empty" THEN Err(MissingSecurityHeader("x-amz-acl"))
             ELSE IF b.kind \in {"XMLSyntaxError", "DocumentInvalid"}
                  THEN Err("MalformedACLError")
             ELSE IF b.kind = "valid"
                  THEN Ok(Some([owner |-> b.owner, grants |-> {}]))
             ELSE Err(b.kind)
        ELSE IF b.kind # "empty" THEN Err("UnexpectedContent")
             ELSE Ok(acl)

\* The tail without check_owner.
put_acl_unchecked(existing, got) == got

\* The tail of S3AclHandler.PUT and POST: check_owner of the existing ACL
\* against the owner of the ACL get_acl built, then the ACL to attach.
put_acl(existing, got) ==
    IF got.err # "" THEN got
    ELSE IF OwnerIs(existing, got.acl[1].owner) THEN got
    ELSE Err("OwnerMismatch")

(***************************************************************************)
(* _handle_acl                                                             *)
(***************************************************************************)
Frame(sw_method, c, o, permission, ret) ==
    [sw_method |-> sw_method, container |-> c, obj |-> o,
     permission |-> permission, ret |-> ret]

\* resource = 'object' if obj else 'container'
ResourceOf(o) == IF o # "" THEN "object" ELSE "container"

\* The resource and the permission to check: the explicit permission, or
\* else the ACL_MAP rule of (self.method, sw_method, resource).
Resolve(m, sw_method, o, permission) ==
    LET key == <<m, sw_method, ResourceOf(o)>>
        rule == Lookup(key)
    IN  IF permission = None /\ rule # None
        THEN [resource |-> RuleResource(rule[1], ResourceOf(o)),
              permission |-> Some(rule[1].Permission)]
        ELSE [resource |-> ResourceOf(o), permission |-> permission]

\* raise Exception('No permission to be checked exists')
NoPermission == "Exception: No permission to be checked exists"

\* The attribute of the probe's response that holds the ACL to evaluate.
AclAttr(resource) == IF resource = "object" THEN "object_acl" ELSE "bucket_acl"

\* The probe issued with the backend verb.
ProbeVerb_sw_method(sw_method) == sw_method

\* The verb of the probe _handle_acl issues.
ProbeVerb(sw_method) == "HEAD"

\* What a backend call may answer: an error (None) or the resource's ACL.
BackendOutcomes == {None} \cup {Some(a) : a \in BackendAcls}

Call(verb, c, o, headers) ==
    [verb |-> verb, container |-> c, obj |-> o, headers |-> headers]

\* raise e
Raise(e) ==
    /\ pc' = "done"
    /\ result' = e
    /\ retval' = None
    /\ frame' = None

\* handle_acl returns v
Return(v) ==
    /\ pc' = "done"
    /\ result' = "return"
    /\ retval' = v
    /\ frame' = None

\* _handle_acl returns v to the place that called it: handle_acl returns it
\* ("return") or the method drops it and returns None ("discard"), or the
\* method goes on with it.
HandleAclReturn(ret, v) ==
    IF ret = "return" THEN Return(v) /\ UNCHANGED resp
    ELSE IF ret = "discard" THEN Return(None) /\ UNCHANGED resp
    ELSE /\ pc' = ret
         /\ resp' = v
         /\ frame' = None
         /\ UNCHANGED <<result, retval>>

\* The call self._handle_acl(app, sw_method, container, obj, permission).
CallHandleAcl(sw_method, c, o, permission, ret) ==
    /\ pc' = "_handle_acl"
    /\ frame' = Some(Frame(sw_method, c, o, permission, ret))
    /\ UNCHANGED <<resp, result, retval>>

\* The guard that tests for None instead of for an empty name.
NoContainer_is_None(c) == FALSE

\* not container
NoContainer(c) == c = ""

\* The probe's response returned whatever the backend verb.
ReturnValue_always(sw_method, rsp) == Some(rsp)

\* if sw_method == 'HEAD': return resp
ReturnValue(sw_method, rsp) == IF sw_method = "HEAD" THEN Some(rsp) ELSE None

_handle_acl ==
    /\ pc = "_handle_acl"
    /\ LET f == frame[1]
           c == OrElse(f.container, container)
           o == OrElse(f.obj, obj)
           sw == IF f.sw_method = "" THEN reqMethod ELSE f.sw_method
           r == Resolve(reqMethod, sw, o, f.permission)
           po == IF r.resource = "object" THEN o ELSE ""
       IN  IF NoContainer(c)
           THEN /\ HandleAclReturn(f.ret, None)
                /\ UNCHANGED <<calls, checks, lookup>>
           ELSE /\ lookup' = IF f.permission = None
                             THEN Some([key |-> <<reqMethod, sw, ResourceOf(o)>>,
                                        rule |-> Lookup(<<reqMethod, sw, ResourceOf(o)>>)])
                             ELSE lookup
                /\ IF r.permission = None
                   THEN /\ Raise(NoPermission)
                        /\ UNCHANGED <<resp, calls, checks>>
                   ELSE \E out \in BackendOutcomes :
                        /\ calls' = Append(calls, Call(ProbeVerb(sw), c, po,
                                                       r.resource = "object"))
                        /\ IF out = None
                           THEN /\ Raise("BackendError")
                                /\ UNCHANGED <<resp, checks>>
                           ELSE LET rsp == ProbeResp(po, out[1])
                                    acl == rsp[AclAttr(r.resource)]
                                IN  /\ checks' = Append(checks,
                                          [permission |-> r.permission[1],
                                           resource |-> r.resource,
                                           container |-> c, obj |-> po,
                                           attr |-> AclAttr(r.resource),
                                           acl |-> acl])
                                    /\ IF Allowed(acl, user_id, r.permission[1])
                                       THEN HandleAclReturn(f.ret,
                                                            ReturnValue(sw, rsp))
                                       ELSE Raise("AccessDenied") /\ UNCHANGED resp
    /\ UNCHANGED <<reqVars, selfVars, method, b_resp, inputVars, aclVars>>

(***************************************************************************)
(* Construction                                                            *)
(***************************************************************************)
Init ==
    /\ pc = "new"
    /\ controller_name = ""
    /\ klass = "Base"
    /\ reqMethod = "HEAD"
    /\ reqContainer = ""
    /\ reqObject = ""
    /\ user_id = "u1"
    /\ given = ""
    /\ container = ""
    /\ obj = ""
    /\ check_copy_src = FALSE
    /\ method = ""
    /\ frame = None
    /\ calls = <<>>
    /\ checks = <<>>
    /\ lookup = None
    /\ b_resp = None
    /\ resp = None
    /\ hdr = None
    /\ body = None
    /\ req_acl = None
    /\ bucket_acl = None
    /\ object_acl = None
    /\ result = "running"
    /\ retval = None

ContainerArgs == {None} \cup {Some(n) : n \in ContainerNames}
ObjectArgs == {None} \cup {Some(n) : n \in ObjectNames}

\* The request of the controller called name, and the handler class
\* get_acl_handler selects for it.
Request(name, m, rc, ro, u) ==
    /\ controller_name' = name
    /\ klass' = get_acl_handler(name)
    /\ reqMethod' = m
    /\ reqContainer' = rc
    /\ reqObject' = ro
    /\ user_id' = u

\* BaseAclHandler.__init__(req, container, obj, headers)
BaseAclHandler_init ==
    /\ pc = "new"
    /\ \E n \in ControllerNames, m \in VERBS, rc \in ContainerNames,
          ro \in ObjectNames, u \in Users, c \in ContainerArgs, o \in ObjectArgs :
        /\ get_acl_handler(n) \notin MultiUploadFamily
        /\ Request(n, m, rc, ro, u)
        /\ given' = OrElse(c, rc)
        /\ container' = OrElse(c, rc)
        /\ obj' = OrElse(o, ro)
        /\ check_copy_src' = FALSE
    /\ pc' = "constructed"
    /\ UNCHANGED <<method, frame, calls, checks, lookup, b_resp, resp, inputVars,
                   aclVars, result, retval>>

\* MultiUploadAclHandler.__init__, inherited by Uploads and Upload
MultiUploadAclHandler_init ==
    /\ pc = "new"
    /\ \E n \in ControllerNames, m \in VERBS, rc \in ContainerNames,
          ro \in ObjectNames, u \in Users, c \in ContainerArgs, o \in ObjectArgs :
        /\ get_acl_handler(n) \in MultiUploadFamily \ {"Part"}
        /\ Request(n, m, rc, ro, u)
        /\ given' = OrElse(c, rc)
        /\ container' = StripSuffix(OrElse(c, rc))
        /\ obj' = OrElse(o, ro)
        /\ check_copy_src' = FALSE
    /\ pc' = "constructed"
    /\ UNCHANGED <<method, frame, calls, checks, lookup, b_resp, resp, inputVars,
                   aclVars, result, retval>>

\* PartAclHandler.__init__ left to MultiUploadAclHandler.__init__.
PartAclHandler_init_parent ==
    /\ pc = "new"
    /\ \E n \in ControllerNames, m \in VERBS, rc \in ContainerNames,
          ro \in ObjectNames, u \in Users, c \in ContainerArgs, o \in ObjectArgs :
        /\ get_acl_handler(n) = "Part"
        /\ Request(n, m, rc, ro, u)
        /\ given' = OrElse(c, rc)
        /\ obj' = OrElse(o, ro)
        /\ container' = StripSuffix(OrElse(c, rc))
        /\ check_copy_src' = FALSE
    /\ pc' = "constructed"
    /\ UNCHANGED <<method, frame, calls, checks, lookup, b_resp, resp, inputVars,
                   aclVars, result, retval>>

\* PartAclHandler.__init__
PartAclHandler_init ==
    /\ pc = "new"
    /\ \E n \in ControllerNames, m \in VERBS, rc \in ContainerNames,
          ro \in ObjectNames, u \in Users, c \in ContainerArgs, o \in ObjectArgs :
        /\ get_acl_handler(n) = "Part"
        /\ Request(n, m, rc, ro, u)
        /\ given' = OrElse(c, rc)
        /\ obj' = OrElse(o, ro)
        /\ IF EndsWith(OrElse(c, rc), MULTIUPLOAD_SUFFIX)
           THEN /\ container' = StripSuffix(OrElse(c, rc))
                /\ check_copy_src' = FALSE
           ELSE /\ container' = OrElse(c, rc)
                /\ check_copy_src' = TRUE
    /\ pc' = "constructed"
    /\ UNCHANGED <<method, frame, calls, checks, lookup, b_resp, resp, inputVars,
                   aclVars, result, retval>>

(***************************************************************************)
(* Dispatch                                                                *)
(***************************************************************************)
MethodArgs == {None} \cup {Some(v) : v \in VERBS}

\* handle_acl falling back to the generic check with the request's verb.
BaseAclHandler_handle_acl_req_method ==
    /\ pc = "constructed"
    /\ klass \notin MultiUploadFamily
    /\ \E a \in MethodArgs :
        /\ method' = OrElse(a, reqMethod)
        /\ IF Attr(klass, OrElse(a, reqMethod)) # ""
           THEN /\ pc' = Attr(klass, OrElse(a, reqMethod))
                /\ UNCHANGED <<frame, resp, result, retval>>
           ELSE CallHandleAcl(reqMethod, None, None, None, "return")
    /\ UNCHANGED <<reqVars, selfVars, calls, checks, lookup, b_resp, inputVars,
                   aclVars>>

\* BaseAclHandler.handle_acl(app, method)
BaseAclHandler_handle_acl ==
    /\ pc = "constructed"
    /\ klass \notin MultiUploadFamily
    /\ \E a \in MethodArgs :
        /\ method' = OrElse(a, reqMethod)
        /\ IF Attr(klass, OrElse(a, reqMethod)) # ""
           THEN /\ pc' = Attr(klass, OrElse(a, reqMethod))
                /\ UNCHANGED <<frame, resp, result, retval>>
           ELSE CallHandleAcl(OrElse(a, reqMethod), None, None, None, "return")
    /\ UNCHANGED <<reqVars, selfVars, calls, checks, lookup, b_resp, inputVars,
                   aclVars>>

\* MultiUploadAclHandler.handle_acl(app, method)
MultiUploadAclHandler_handle_acl ==
    /\ pc = "constructed"
    /\ klass \in MultiUploadFamily
    /\ \E a \in MethodArgs :
        /\ method' = OrElse(a, reqMethod)
        /\ IF Attr(klass, OrElse(a, reqMethod)) # ""
           THEN /\ pc' = Attr(klass, OrElse(a, reqMethod))
                /\ UNCHANGED <<frame, resp, result, retval>>
           ELSE Return(None) /\ UNCHANGED resp
    /\ UNCHANGED <<reqVars, selfVars, calls, checks, lookup, b_resp, inputVars,
                   aclVars>>

(***************************************************************************)
(* The handlers' methods                                                   *)
(***************************************************************************)
\* BucketAclHandler.PUT with the ACL set on the request before the create call.
BucketAclHandler_PUT_acl_first ==
    /\ pc = "Bucket.PUT"
    /\ \E h \in HeaderValues, ok \in BOOLEAN :
        /\ hdr' = Some(h)
        /\ req_acl' = from_headers(h, user_id, None, TRUE)
        /\ bucket_acl' = from_headers(h, user_id, None, TRUE)
        /\ calls' = Append(calls, Call("PUT", reqContainer, reqObject, FALSE))
        /\ IF ok
           THEN /\ pc' = "Bucket.PUT.update"
                /\ UNCHANGED <<frame, resp, result, retval>>
           ELSE Raise("BackendError") /\ UNCHANGED resp
    /\ UNCHANGED <<reqVars, selfVars, method, checks, lookup, b_resp, body,
                   object_acl>>

\* BucketAclHandler.PUT up to the backend's answer to the create call
BucketAclHandler_PUT ==
    /\ pc = "Bucket.PUT"
    /\ \E h \in HeaderValues, ok \in BOOLEAN :
        /\ hdr' = Some(h)
        /\ req_acl' = from_headers(h, user_id, None, TRUE)
        /\ calls' = Append(calls, Call("PUT", reqContainer, reqObject, FALSE))
        /\ IF ok
           THEN /\ pc' = "Bucket.PUT.update"
                /\ UNCHANGED <<frame, resp, result, retval>>
           ELSE Raise("BackendError") /\ UNCHANGED resp
    /\ UNCHANGED <<reqVars, selfVars, method, checks, lookup, b_resp, body,
                   bucket_acl, object_acl>>

\* BucketAclHandler.PUT from `update metadata` on
BucketAclHandler_PUT_update ==
    /\ pc = "Bucket.PUT.update"
    /\ bucket_acl' = req_acl
    /\ calls' = Append(calls, Call("POST", reqContainer, reqObject, FALSE))
    /\ \E ok \in BOOLEAN :
        IF ok THEN Return(Some(ContainerResp(EmptyAcl))) ELSE Raise("BackendError")
    /\ UNCHANGED <<reqVars, selfVars, method, checks, lookup, b_resp, resp, inputVars,
                   req_acl, object_acl>>

\* ObjectAclHandler.PUT without the empty object name.
ObjectAclHandler_PUT_self_obj ==
    /\ pc = "Object.PUT"
    /\ CallHandleAcl("HEAD", None, None, None, "Object.PUT.acl")
    /\ UNCHANGED <<reqVars, selfVars, method, calls, checks, lookup, b_resp,
                   inputVars, aclVars>>

\* ObjectAclHandler.PUT: the call of _handle_acl
ObjectAclHandler_PUT ==
    /\ pc = "Object.PUT"
    /\ CallHandleAcl("HEAD", None, Some(""), None, "Object.PUT.acl")
    /\ UNCHANGED <<reqVars, selfVars, method, calls, checks, lookup, b_resp,
                   inputVars, aclVars>>

\* ObjectAclHandler.PUT probing the object for its prior owner once the check
\* passed.
ObjectAclHandler_PUT_acl_probe ==
    /\ pc = "Object.PUT.acl"
    /\ IF resp = None
       THEN /\ Raise("AttributeError")
            /\ UNCHANGED <<hdr, req_acl, object_acl, calls>>
       ELSE \E h \in HeaderValues :
            /\ hdr' = Some(h)
            /\ calls' = Append(calls, Call("HEAD", container, obj, TRUE))
            /\ req_acl' = from_headers(h, resp[1].bucket_acl.owner,
                                       Some(user_id), TRUE)
            /\ object_acl' = from_headers(h, resp[1].bucket_acl.owner,
                                          Some(user_id), TRUE)
            /\ Return(None)
    /\ UNCHANGED <<reqVars, selfVars, method, checks, lookup, b_resp, resp,
                   body, bucket_acl>>

\* ObjectAclHandler.PUT after _handle_acl returned b_resp
ObjectAclHandler_PUT_acl ==
    /\ pc = "Object.PUT.acl"
    /\ IF resp = None
       THEN /\ Raise("AttributeError")
            /\ UNCHANGED <<hdr, req_acl, object_acl>>
       ELSE \E h \in HeaderValues :
            /\ hdr' = Some(h)
            /\ req_acl' = from_headers(h, resp[1].bucket_acl.owner,
                                       Some(user_id), TRUE)
            /\ object_acl' = from_headers(h, resp[1].bucket_acl.owner,
                                          Some(user_id), TRUE)
            /\ Return(None)
    /\ UNCHANGED <<reqVars, selfVars, method, calls, checks, lookup, b_resp, resp,
                   body, bucket_acl>>

\* S3AclHandler.GET without the explicit permission.
S3AclHandler_GET_no_permission ==
    /\ pc = "S3Acl.GET"
    /\ CallHandleAcl("HEAD", None, None, None, "discard")
    /\ UNCHANGED <<reqVars, selfVars, method, calls, checks, lookup, b_resp,
                   inputVars, aclVars>>

\* S3AclHandler.GET
S3AclHandler_GET ==
    /\ pc = "S3Acl.GET"
    /\ CallHandleAcl("HEAD", None, None, Some("READ_ACP"), "discard")
    /\ UNCHANGED <<reqVars, selfVars, method, calls, checks, lookup, b_resp,
                   inputVars, aclVars>>

\* req.is_object_request, req.is_bucket_request
is_object_request == reqContainer # "" /\ reqObject # ""
is_bucket_request == reqContainer # "" /\ reqObject = ""

\* S3AclHandler.PUT up to the call of _handle_acl
S3AclHandler_PUT ==
    /\ pc = "S3Acl.PUT"
    /\ IF is_object_request
       THEN \E out \in BackendOutcomes :
            /\ calls' = Append(calls, Call("HEAD", reqContainer, "", FALSE))
            /\ IF out = None
               THEN /\ Raise("BackendError")
                    /\ UNCHANGED <<b_resp, resp>>
               ELSE /\ b_resp' = Some(ContainerResp(out[1]))
                    /\ CallHandleAcl("HEAD", None, None, Some("WRITE_ACP"),
                                     "S3Acl.PUT.acl")
       ELSE /\ CallHandleAcl(reqMethod, None, None, None, "discard")
            /\ UNCHANGED <<calls, b_resp>>
    /\ UNCHANGED <<reqVars, selfVars, method, checks, lookup, inputVars, aclVars>>

\* S3AclHandler.PUT after _handle_acl returned o_resp
S3AclHandler_PUT_acl ==
    /\ pc = "S3Acl.PUT.acl"
    /\ IF resp = None
       THEN /\ Raise("AttributeError")
            /\ UNCHANGED <<inputVars, req_acl, object_acl>>
       ELSE \E h \in HeaderValues, b \in BodyValues :
            LET got == get_acl(h, b, b_resp[1].bucket_acl.owner,
                               Some(resp[1].object_acl.owner))
                put == put_acl(resp[1].object_acl, got)
            IN  /\ hdr' = Some(h)
                /\ body' = Some(b)
                /\ req_acl' = got.acl
                /\ object_acl' = put.acl
                /\ IF put.err = "" THEN Return(None) ELSE Raise(put.err)
    /\ UNCHANGED <<reqVars, selfVars, method, calls, checks, lookup, b_resp, resp,
                   bucket_acl>>

\* S3AclHandler.POST checking READ_ACP before the ACL is written.
S3AclHandler_POST_read_acp ==
    /\ pc = "S3Acl.POST"
    /\ IF reqContainer # "" /\ reqObject = ""
       THEN CallHandleAcl("HEAD", None, None, Some("READ_ACP"), "S3Acl.POST.acl")
       ELSE CallHandleAcl(reqMethod, None, None, None, "discard")
    /\ UNCHANGED <<reqVars, selfVars, method, calls, checks, lookup, b_resp,
                   inputVars, aclVars>>

\* S3AclHandler.POST up to the call of _handle_acl
S3AclHandler_POST ==
    /\ pc = "S3Acl.POST"
    /\ IF is_bucket_request
       THEN CallHandleAcl("HEAD", None, None, Some("WRITE_ACP"), "S3Acl.POST.acl")
       ELSE CallHandleAcl(reqMethod, None, None, None, "discard")
    /\ UNCHANGED <<reqVars, selfVars, method, calls, checks, lookup, b_resp,
                   inputVars, aclVars>>

\* S3AclHandler.POST after _handle_acl returned resp
S3AclHandler_POST_acl ==
    /\ pc = "S3Acl.POST.acl"
    /\ IF resp = None
       THEN /\ Raise("AttributeError")
            /\ UNCHANGED <<inputVars, req_acl, bucket_acl>>
       ELSE \E h \in HeaderValues, b \in BodyValues :
            LET got == get_acl(h, b, resp[1].bucket_acl.owner, None)
                put == put_acl(resp[1].bucket_acl, got)
            IN  /\ hdr' = Some(h)
                /\ body' = Some(b)
                /\ req_acl' = got.acl
                /\ bucket_acl' = put.acl
                /\ IF put.err = "" THEN Return(None) ELSE Raise(put.err)
    /\ UNCHANGED <<reqVars, selfVars, method, calls, checks, lookup, b_resp, resp,
                   object_acl>>

\* MultiObjectDeleteAclHandler.DELETE
MultiObjectDeleteAclHandler_DELETE ==
    /\ pc = "MultiObjectDelete.DELETE"
    /\ Return(None)
    /\ UNCHANGED <<reqVars, selfVars, method, calls, checks, lookup, b_resp, resp,
                   inputVars, aclVars>>

\* MultiUploadAclHandler.HEAD, inherited by Uploads
MultiUploadAclHandler_HEAD ==
    /\ pc = "MultiUpload.HEAD"
    /\ CallHandleAcl("HEAD", Some(container), Some(""), None, "discard")
    /\ UNCHANGED <<reqVars, selfVars, method, calls, checks, lookup, b_resp,
                   inputVars, aclVars>>

\* PartAclHandler.HEAD
PartAclHandler_HEAD ==
    /\ pc = "Part.HEAD"
    /\ IF check_copy_src
       THEN CallHandleAcl("HEAD", Some(container), Some(obj), None, "return")
       ELSE CallHandleAcl("HEAD", Some(container), Some(""), None, "discard")
    /\ UNCHANGED <<reqVars, selfVars, method, calls, checks, lookup, b_resp,
                   inputVars, aclVars>>

\* UploadsAclHandler.GET
UploadsAclHandler_GET ==
    /\ pc = "Uploads.GET"
    /\ CallHandleAcl("GET", Some(container), Some(""), None, "discard")
    /\ UNCHANGED <<reqVars, selfVars, method, calls, checks, lookup, b_resp,
                   inputVars, aclVars>>

\* UploadsAclHandler.PUT
UploadsAclHandler_PUT ==
    /\ pc = "Uploads.PUT"
    /\ IF obj = ""
       THEN CallHandleAcl("PUT", Some(container), None, None, "discard")
       ELSE Return(None) /\ UNCHANGED resp
    /\ UNCHANGED <<reqVars, selfVars, method, calls, checks, lookup, b_resp,
                   inputVars, aclVars>>

\* UploadAclHandler.HEAD without the empty object name.
UploadAclHandler_HEAD_obj ==
    /\ pc = "Upload.HEAD"
    /\ CallHandleAcl(IF reqMethod = "GET" THEN "GET" ELSE "HEAD",
                     Some(container), None, None, "discard")
    /\ UNCHANGED <<reqVars, selfVars, method, calls, checks, lookup, b_resp,
                   inputVars, aclVars>>

\* UploadAclHandler.HEAD
UploadAclHandler_HEAD ==
    /\ pc = "Upload.HEAD"
    /\ CallHandleAcl(IF reqMethod = "GET" THEN "GET" ELSE "HEAD",
                     Some(container), Some(""), None, "discard")
    /\ UNCHANGED <<reqVars, selfVars, method, calls, checks, lookup, b_resp,
                   inputVars, aclVars>>

Next ==
    \/ BaseAclHandler_init
    \/ MultiUploadAclHandler_init
    \/ PartAclHandler_init
    \/ BaseAclHandler_handle_acl
    \/ MultiUploadAclHandler_handle_acl
    \/ _handle_acl
    \/ BucketAclHandler_PUT
    \/ BucketAclHandler_PUT_update
    \/ ObjectAclHandler_PUT
    \/ ObjectAclHandler_PUT_acl
    \/ S3AclHandler_GET
    \/ S3AclHandler_PUT
    \/ S3AclHandler_PUT_acl
    \/ S3AclHandler_POST
    \/ S3AclHandler_POST_acl
    \/ MultiObjectDeleteAclHandler_DELETE
    \/ MultiUploadAclHandler_HEAD
    \/ PartAclHandler_HEAD
    \/ UploadsAclHandler_GET
    \/ UploadsAclHandler_PUT
    \/ UploadAclHandler_HEAD

Spec == Init /\ [][Next]_vars

(***************************************************************************)
(* Properties                                                              *)
(***************************************************************************)
Done == pc = "done"
AllHead == \A i \in DOMAIN calls : calls[i].verb = "HEAD"
NothingAttached == bucket_acl = None /\ object_acl = None
LastCheck == checks[Len(checks)]

\* The authorization checkpoint table of the specification: the resource
\* kind checked and the permission required, by (incoming verb, backend
\* verb, resource kind).
CheckpointTable ==
    (<<"HEAD", "HEAD", "container">> :> <<"container", "READ">>) @@
    (<<"GET", "HEAD", "container">> :> <<"container", "OWNER">>) @@
    (<<"GET", "GET", "container">> :> <<"container", "READ">>) @@
    (<<"PUT", "HEAD", "container">> :> <<"container", "WRITE">>) @@
    (<<"DELETE", "DELETE", "container">> :> <<"container", "OWNER">>) @@
    (<<"HEAD", "HEAD", "object">> :> <<"object", "READ">>) @@
    (<<"GET", "GET", "object">> :> <<"object", "READ">>) @@
    (<<"PUT", "HEAD", "object">> :> <<"object", "READ">>) @@
    (<<"POST", "PUT", "container">> :> <<"container", "WRITE">>) @@
    (<<"DELETE", "HEAD", "container">> :> <<"container", "WRITE">>) @@
    (<<"DELETE", "DELETE", "object">> :> <<"container", "WRITE">>) @@
    (<<"POST", "HEAD", "container">> :> <<"container", "WRITE">>)

\* C1: every ACL_MAP lookup _handle_acl makes, for any (incoming verb,
\* backend verb, resource kind), yields the permission and the resource of
\* the checkpoint table for its twelve triples, the only 'Resource' override
\* being that of DELETE/DELETE/object, and yields no rule for any other.
C1_PermissionTable ==
    lookup # None =>
        LET k == lookup[1].key
            rule == lookup[1].rule
        IN  /\ k \in VERBS \X VERBS \X RESOURCES
            /\ IF k \in DOMAIN CheckpointTable
               THEN /\ rule # None
                    /\ rule[1].Permission = CheckpointTable[k][2]
                    /\ RuleResource(rule[1], k[3]) = CheckpointTable[k][1]
                    /\ ("Resource" \in DOMAIN rule[1])
                          <=> (k = <<"DELETE", "DELETE", "object">>)
               ELSE rule = None

C1_Witness ==
    /\ Done
    /\ lookup # None
    /\ lookup[1].key = <<"DELETE", "DELETE", "object">>
    /\ lookup[1].rule = Some([Resource |-> "container", Permission |-> "WRITE"])

\* C2: when the headers yield an ACL and the body is not empty, get_acl
\* raises UnexpectedContent whatever the body is, and no ACL is returned
\* or attached.
C2_MutuallyExclusive ==
    (hdr # None /\ body # None /\ hdr[1].acl /\ body[1].kind # "empty") =>
        /\ result = "UnexpectedContent"
        /\ req_acl = None
        /\ NothingAttached

C2_Witness ==
    /\ hdr # None /\ body # None
    /\ hdr[1].acl
    /\ body[1].kind = "valid"
    /\ result = "UnexpectedContent"

\* C3 as claimed: without a header ACL, a body that cannot be parsed into an
\* ACL, for whatever reason, makes get_acl raise MalformedACLError.
C3_AlwaysMalformed ==
    (hdr # None /\ body # None /\ ~hdr[1].acl
        /\ body[1].kind \in {"XMLSyntaxError", "DocumentInvalid", "Exception"}) =>
        result = "MalformedACLError"

\* C3 amended: without a header ACL, a body that is ill-formed XML or that
\* the schema rejects makes get_acl raise MalformedACLError; any other
\* exception of the parsing is raised again as it is.  No ACL is returned.
C3_MalformedOrReraised ==
    (hdr # None /\ body # None /\ ~hdr[1].acl) =>
        /\ body[1].kind \in {"XMLSyntaxError", "DocumentInvalid"} =>
              result = "MalformedACLError" /\ req_acl = None /\ NothingAttached
        /\ body[1].kind = "Exception" =>
              result = "Exception" /\ req_acl = None /\ NothingAttached

C3_Witness ==
    /\ hdr # None /\ body # None
    /\ ~hdr[1].acl
    /\ body[1].kind = "DocumentInvalid"
    /\ result = "MalformedACLError"

\* The ACL the resource has when S3AclHandler writes its ACL.
ExistingAcl == IF method = "PUT" THEN resp[1].object_acl ELSE resp[1].bucket_acl

\* C4: S3AclHandler.PUT (object) and POST (bucket), once the caller passed
\* the WRITE_ACP check and get_acl built the new ACL: if its owner id is not
\* the owner id of the existing ACL the request ends with the owner
\* mismatch, no ACL attached and only HEAD calls issued; the new ACL is
\* attached to the request only when the owner ids are equal.
C4_OwnerImmutable ==
    /\ (klass = "S3Acl" /\ Done /\ req_acl # None) =>
          /\ checks # <<>>
          /\ LastCheck.permission = "WRITE_ACP"
          /\ Allowed(LastCheck.acl, user_id, "WRITE_ACP")
          /\ IF req_acl[1].owner # ExistingAcl.owner
             THEN result = "OwnerMismatch" /\ NothingAttached /\ AllHead
             ELSE /\ result = "return"
                  /\ IF method = "PUT"
                     THEN object_acl = req_acl /\ bucket_acl = None
                     ELSE bucket_acl = req_acl /\ object_acl = None
    /\ (klass = "S3Acl" /\ ~NothingAttached) =>
          /\ req_acl # None
          /\ req_acl[1].owner = ExistingAcl.owner

C4_Witness ==
    /\ klass = "S3Acl" /\ Done
    /\ method = "POST"
    /\ req_acl # None
    /\ LastCheck.acl.owner # user_id
    /\ req_acl[1].owner = user_id
    /\ result = "OwnerMismatch"
    /\ bucket_acl = None

\* The errors by which the handlers themselves reject a request.
Rejections ==
    {"AccessDenied", "OwnerMismatch", MissingSecurityHeader("x-amz-acl"), "MalformedACLError",
     "UnexpectedContent", "Exception", NoPermission}

\* C5: outside BucketAclHandler.PUT, a request that was rejected has issued
\* HEAD calls only and has no ACL attached, in the state of the rejection and
\* in every later one (calls are only ever appended); and only
\* BucketAclHandler.PUT ever issues a call that is not a HEAD.
C5_RejectBeforeMutation ==
    /\ (result \in Rejections /\ ~(klass = "Bucket" /\ method = "PUT")) =>
          AllHead /\ NothingAttached
    /\ ~AllHead => (klass = "Bucket" /\ method = "PUT")

C5_Witness ==
    /\ result = "AccessDenied"
    /\ reqMethod = "DELETE" /\ method = "DELETE"
    /\ Len(calls) = 1
    /\ calls[1].verb = "HEAD"

\* C6: in BucketAclHandler.PUT every POST call comes right after the PUT
\* call that created the bucket; the request's bucket ACL is set only with
\* that POST; and when the PUT fails neither happens.
C6_CreateBeforeAttach ==
    (klass = "Bucket" /\ method = "PUT") =>
        /\ \A i \in DOMAIN calls :
              calls[i].verb = "POST" => (i = 2 /\ calls[1].verb = "PUT")
        /\ bucket_acl # None =>
              (Len(calls) = 2 /\ calls[1].verb = "PUT" /\ calls[2].verb = "POST")
        /\ (result = "BackendError" /\ Len(calls) = 1) =>
              (calls[1].verb = "PUT" /\ bucket_acl = None)

C6_Witness ==
    /\ klass = "Bucket" /\ method = "PUT" /\ Done
    /\ result = "BackendError"
    /\ Len(calls) = 1
    /\ calls[1].verb = "PUT"
    /\ bucket_acl = None

\* C7: a check of DELETE / DELETE on a named object probes the container
\* with an empty object name and evaluates WRITE on the container's ACL,
\* which alone decides between access denied and success.
C7_DeleteObjectChecksContainer ==
    (Done /\ lookup # None /\ lookup[1].key = <<"DELETE", "DELETE", "object">>) =>
        /\ obj # ""
        /\ Len(calls) = 1
        /\ calls[1].container = container
        /\ calls[1].obj = ""
        /\ result \in {"BackendError", "AccessDenied", "return"}
        /\ result = "BackendError" => checks = <<>>
        /\ result # "BackendError" =>
              /\ Len(checks) = 1
              /\ checks[1].permission = "WRITE"
              /\ checks[1].resource = "container"
              /\ checks[1].attr = "bucket_acl"
              /\ checks[1].container = container
              /\ checks[1].obj = ""
              /\ (result = "return") <=> Allowed(checks[1].acl, user_id, "WRITE")

C7_Witness ==
    /\ Done
    /\ lookup # None
    /\ lookup[1].key = <<"DELETE", "DELETE", "object">>
    /\ obj = "obj"
    /\ result = "return"
    /\ checks[1].acl.owner # user_id
    /\ checks[1].attr = "bucket_acl"

\* C8: UploadAclHandler on a DELETE request, constructed on a container that
\* ends with the suffix: every probe and every check is of the container
\* with the suffix stripped and an empty object name, for WRITE on the
\* container's ACL; there is at most one, and exactly one probe when the
\* handler is asked for HEAD.
C8_AbortChecksBaseContainer ==
    (klass = "Upload" /\ reqMethod = "DELETE" /\ Done
        /\ EndsWith(given, MULTIUPLOAD_SUFFIX)) =>
        /\ given = container \o MULTIUPLOAD_SUFFIX
        /\ Len(calls) <= 1 /\ Len(checks) <= 1
        /\ \A i \in DOMAIN calls :
              /\ calls[i].container = container /\ calls[i].container # given
              /\ calls[i].obj = ""
        /\ \A i \in DOMAIN checks :
              /\ checks[i].permission = "WRITE"
              /\ checks[i].resource = "container"
              /\ checks[i].attr = "bucket_acl"
              /\ checks[i].container = container
              /\ checks[i].obj = ""
        /\ method = "HEAD" => Len(calls) = 1
        /\ (method = "HEAD" /\ result # "BackendError") => Len(checks) = 1
        /\ method # "HEAD" => calls = <<>>

C8_Witness ==
    /\ klass = "Upload" /\ reqMethod = "DELETE" /\ Done
    /\ given = BaseName \o MULTIUPLOAD_SUFFIX
    /\ obj # ""
    /\ method = "HEAD"
    /\ result = "return"
    /\ Len(checks) = 1
    /\ checks[1].container = BaseName

\* C9: a handler of the multipart family constructed on b + suffix checks
\* the container b: one suffix is stripped and nothing else, so that
\* b + suffix + suffix yields b + suffix.
C9_SingleStrip ==
    (pc # "new" /\ klass \in MultiUploadFamily
        /\ EndsWith(given, MULTIUPLOAD_SUFFIX)) =>
        /\ container \o MULTIUPLOAD_SUFFIX = given
        /\ Len(container) = Len(given) - Len(MULTIUPLOAD_SUFFIX)

C9_Witness ==
    /\ pc # "new"
    /\ klass = "Uploads"
    /\ given = BaseName \o MULTIUPLOAD_SUFFIX \o MULTIUPLOAD_SUFFIX
    /\ container = BaseName \o MULTIUPLOAD_SUFFIX

\* The errors of get_acl about the request's input.
InputErrors == {MissingSecurityHeader("x-amz-acl"), "MalformedACLError", "UnexpectedContent"}

\* C10 as claimed: a request that ends with an input-validation error has
\* issued no backend call.
C10_NoBackendCall == result \in InputErrors => calls = <<>>

\* C10 amended: an input-validation error is raised by get_acl in
\* S3AclHandler.PUT or POST, after the HEAD probes of the handler (two for
\* an object, one for a bucket) were issued and the WRITE_ACP check passed;
\* no other backend call has been issued and no ACL is attached.
C10_OnlyProbesBefore ==
    result \in InputErrors =>
        /\ klass = "S3Acl" /\ method \in {"PUT", "POST"}
        /\ AllHead
        /\ Len(calls) = (IF method = "PUT" THEN 2 ELSE 1)
        /\ Len(checks) = 1
        /\ checks[1].permission = "WRITE_ACP"
        /\ Allowed(checks[1].acl, user_id, "WRITE_ACP")
        /\ NothingAttached

C10_Witness ==
    /\ result = "MalformedACLError"
    /\ klass = "S3Acl" /\ method = "PUT"
    /\ Len(calls) = 2
    /\ AllHead

\* The method handle_acl dispatched to, "" when the class defines none.
Dispatched == IF pc \in {"new", "constructed"} THEN "" ELSE Attr(klass, method)

\* The handler's path makes its check with an explicit permission, or with a
\* backend verb and resource whose ACL_MAP entry exists for every request
\* verb, or makes no check.
PermissionAlwaysResolved ==
    \/ Dispatched \in {"Bucket.PUT", "Object.PUT", "S3Acl.GET",
                       "MultiObjectDelete.DELETE", "MultiUpload.HEAD",
                       "Upload.HEAD"}
    \/ Dispatched = "S3Acl.PUT" /\ is_object_request
    \/ Dispatched = "S3Acl.POST" /\ is_bucket_request
    \/ Dispatched = "Part.HEAD" /\ ~check_copy_src
    \/ Dispatched = "" /\ klass \in MultiUploadFamily

\* C11 as claimed: no handler class other than BaseAclHandler raises the
\* configuration error.
C11_NeverFromSpecialized == klass # "Base" => result # NoPermission

\* C11 amended: the configuration error is raised exactly when the generic
\* check runs on a non-empty container without an explicit permission and
\* ACL_MAP has no entry for (request verb, backend verb, resource), before
\* any probe or permission check of it; the specialized handlers never raise
\* it on the paths that pass an explicit permission or probe the container
\* with HEAD, and do raise it on the others for the verbs without an entry.
C11_ConfigErrorOnlyWithoutRule ==
    /\ result = NoPermission =>
        /\ container # ""
        /\ lookup # None
        /\ lookup[1].rule = None
        /\ lookup[1].key \notin DOMAIN ACL_MAP
        /\ checks = <<>>
        /\ calls = <<>>
    /\ (Done /\ lookup # None /\ lookup[1].rule = None) => result = NoPermission
    /\ PermissionAlwaysResolved => result # NoPermission

C11_Witness ==
    /\ Done
    /\ klass = "S3Acl" /\ method = "GET" /\ reqMethod = "GET"
    /\ container # "" /\ obj # ""
    /\ <<"GET", "HEAD", "object">> \notin DOMAIN ACL_MAP
    /\ Len(checks) = 1
    /\ result = "return"

\* The HEAD probes among the backend calls issued.
IsProbe(c) == c.verb = "HEAD"
Probes == SelectSeq(calls, IsProbe)

\* The probe S3AclHandler.PUT issues itself for b_resp was answered.
OwnProbe == IF b_resp # None THEN 1 ELSE 0

\* A probe was answered with an error.
FailedProbe ==
    IF result = "BackendError" /\ Dispatched # "Bucket.PUT" THEN 1 ELSE 0

\* C12 as claimed: the one handler that issues two probes is
\* ObjectAclHandler.PUT, and its second probe follows its check.
C12_TwoProbesOnlyObjectPut ==
    Len(Probes) >= 2 => (Dispatched = "Object.PUT" /\ Len(checks) = 1)

\* C12 amended: a run of the generic check past its guard and its permission
\* resolution issues exactly one probe, so a handler has issued one probe per
\* check made or failed on the backend; the one handler that issues two
\* probes is S3AclHandler.PUT on an object request, whose own HEAD of the
\* container is issued before its check; ObjectAclHandler.PUT issues one.
C12_OneProbePerCheck ==
    /\ Len(Probes) = Len(checks) + FailedProbe + OwnProbe
    /\ Len(checks) <= 1
    /\ OwnProbe = 1 =>
        /\ Dispatched = "S3Acl.PUT" /\ is_object_request
        /\ calls[1] = Call("HEAD", reqContainer, "", FALSE)
    /\ (pc = "_handle_acl" /\ OwnProbe = 1) => (Len(calls) = 1 /\ checks = <<>>)
    /\ Len(Probes) = 2 => (Dispatched = "S3Acl.PUT" /\ is_object_request)
    /\ Len(Probes) <= 2
    /\ Dispatched = "Object.PUT" => Len(Probes) <= 1

C12_Witness ==
    /\ Done
    /\ Dispatched = "S3Acl.PUT"
    /\ Len(Probes) = 2
    /\ Len(checks) = 1
    /\ result = "return"
    /\ object_acl # None

\* C13: ObjectAclHandler.PUT for an incoming PUT probes the container alone
\* (HEAD, empty object name) and checks WRITE on the container's ACL; the
\* object's ACL is built and attached only once that check has passed, owned
\* by the caller and built with the owner of the container's ACL as bucket
\* owner; when the check is denied, or fails otherwise, no ACL is attached.
C13_CreateObject ==
    (Dispatched = "Object.PUT" /\ reqMethod = "PUT") =>
        /\ Len(calls) <= 1
        /\ \A i \in DOMAIN calls : calls[i] = Call("HEAD", container, "", FALSE)
        /\ Len(checks) <= 1
        /\ \A i \in DOMAIN checks :
            /\ checks[i].permission = "WRITE"
            /\ checks[i].resource = "container"
            /\ checks[i].attr = "bucket_acl"
            /\ checks[i].container = container
            /\ checks[i].obj = ""
        /\ object_acl # None =>
            /\ Done /\ result = "return"
            /\ Len(checks) = 1
            /\ Allowed(checks[1].acl, user_id, "WRITE")
            /\ object_acl = req_acl
            /\ object_acl[1].owner = user_id
            /\ hdr[1].acl =>
                [grantee |-> checks[1].acl.owner, permission |-> "FULL_CONTROL"]
                    \in object_acl[1].grants
        /\ (Done /\ result = "return") => object_acl # None
        /\ result = "AccessDenied" =>
            /\ Len(checks) = 1
            /\ ~Allowed(checks[1].acl, user_id, "WRITE")
        /\ result # "return" => (object_acl = None /\ req_acl = None)
        /\ bucket_acl = None

C13_Witness ==
    /\ Done
    /\ Dispatched = "Object.PUT" /\ reqMethod = "PUT"
    /\ obj # ""
    /\ result = "return"
    /\ object_acl # None
    /\ hdr[1].acl
    /\ checks[1].acl.owner # user_id
    /\ object_acl[1].owner = user_id

\* The controllers a handler class is written for, S3Acl apart.
NamedControllers ==
    {"Bucket", "Object", "MultiObjectDelete", "MultiUpload", "Part", "Uploads",
     "Upload"}

\* C14: get_acl_handler selects, for a controller's name, the handler class
\* named by that name followed by "AclHandler" (Bucket, Object,
\* MultiObjectDelete, MultiUpload, Part, Uploads, Upload), S3AclHandler for
\* the name "S3Acl", and BaseAclHandler for every other name; the class
\* depends on the name alone.
C14_HandlerSelection ==
    pc # "new" =>
        /\ controller_name \in NamedControllers =>
            /\ klass = controller_name
            /\ TypeName[klass] = controller_name \o "AclHandler"
        /\ controller_name = "S3Acl" =>
            /\ klass = "S3Acl"
            /\ TypeName[klass] = "S3AclHandler"
        /\ controller_name \notin NamedControllers \cup {"S3Acl"} => klass = "Base"
        /\ klass = get_acl_handler(controller_name)

C14_Witness ==
    /\ pc = "constructed"
    /\ controller_name = "S3Acl"
    /\ klass = "S3Acl"
    /\ get_acl_handler("S3") = "Base"
    /\ get_acl_handler("Upload") = "Upload"

\* handle_acl has dispatched.
Handled == pc \notin {"new", "constructed"}

\* The call of the generic check handle_acl makes for a verb without method.
GenericCall == Some(Frame(method, None, None, None, "return"))

\* C15 as claimed: in every handler class, a verb without a method of its
\* name gets the generic check.
C15_GenericCheckWhenUndefined ==
    (Handled /\ Dispatched = "" /\ Done /\ container # "") => lookup # None

\* C15 amended: handle_acl runs the method named after the verb when the
\* class or an ancestor defines one, and then makes no generic call of its
\* own; without such a method BaseAclHandler and the per-controller classes
\* run the generic check with the verb as backend verb and return its value,
\* while the classes of the multipart-upload family do nothing: no lookup, no
\* probe, no check, None returned.
C15_DispatchByVerb ==
    Handled =>
        /\ Dispatched # "" =>
            /\ pc \in {Dispatched, Dispatched \o ".acl", Dispatched \o ".update",
                       "_handle_acl", "done"}
            /\ frame # GenericCall
        /\ (Dispatched = "" /\ klass \notin MultiUploadFamily) =>
            /\ pc \in {"_handle_acl", "done"}
            /\ pc = "_handle_acl" => frame = GenericCall
            /\ lookup # None =>
                lookup[1].key = <<reqMethod, method, ResourceOf(obj)>>
            /\ (Done /\ container # "") => lookup # None
            /\ \A i \in DOMAIN calls : calls[i] = Call("HEAD", container,
                                                       calls[i].obj, calls[i].obj # "")
        /\ (Dispatched = "" /\ klass \in MultiUploadFamily) =>
            /\ Done
            /\ result = "return"
            /\ retval = None
            /\ lookup = None
            /\ calls = <<>>
            /\ checks = <<>>

C15_Witness ==
    /\ Done
    /\ klass = "Upload"
    /\ method = "DELETE"
    /\ Dispatched = ""
    /\ container # ""
    /\ <<reqMethod, "DELETE", ResourceOf(obj)>> \in DOMAIN ACL_MAP
    /\ calls = <<>>
    /\ result = "return"

\* get_acl has run: S3AclHandler.PUT or POST has read the headers and the
\* body.
GetAclRan == Dispatched \in {"S3Acl.PUT", "S3Acl.POST"} /\ hdr # None /\ body # None

\* C16: when the headers carry no ACL and the body is empty, get_acl raises
\* MissingSecurityHeader naming the header x-amz-acl and returns no ACL, so
\* none is attached; it raises that error in no other case.
C16_MissingHeader ==
    GetAclRan =>
        /\ (~hdr[1].acl /\ body[1].kind = "empty") =>
            /\ get_acl(hdr[1], body[1], NoOwner, None)
                    = Err(MissingSecurityHeader("x-amz-acl"))
            /\ Done
            /\ result = "MissingSecurityHeader: x-amz-acl"
            /\ req_acl = None
            /\ NothingAttached
        /\ result = MissingSecurityHeader("x-amz-acl") =>
            (~hdr[1].acl /\ body[1].kind = "empty")

C16_Witness ==
    /\ GetAclRan
    /\ ~hdr[1].acl
    /\ body[1].kind = "empty"
    /\ result = MissingSecurityHeader("x-amz-acl")
    /\ Len(checks) = 1

\* The methods that go on after the generic check returned to them.
Continuing == {"Object.PUT", "S3Acl.PUT", "S3Acl.POST"}

\* C17: with an empty resolved container the generic check returns None at
\* once, whatever the request verb, the backend verb, the object name and
\* the explicit permission, and also when ACL_MAP has no entry: no lookup, no
\* probe, no permission check, no configuration error and no denial.
C17_EntryGuard ==
    (Handled /\ container = "") =>
        /\ lookup = None
        /\ checks = <<>>
        /\ Len(Probes) = OwnProbe + FailedProbe
        /\ Dispatched # "S3Acl.PUT" => Probes = <<>>
        /\ result \notin {NoPermission, "AccessDenied"}
        /\ resp = None
        /\ (Done /\ Dispatched \notin Continuing \cup {"Bucket.PUT"}) =>
            /\ result = "return"
            /\ retval = None
            /\ calls = <<>>

C17_Witness ==
    /\ Done
    /\ klass = "Bucket"
    /\ container = ""
    /\ reqMethod = "POST" /\ method = "POST" /\ obj # ""
    /\ <<"POST", "POST", "object">> \notin DOMAIN ACL_MAP
    /\ result = "return"
    /\ retval = None
    /\ calls = <<>>

\* handle_acl returned what the generic check returned for the verb.
GenericDone == Handled /\ Done /\ Dispatched = "" /\ klass \notin MultiUploadFamily

\* C18: when the permission check passes, the generic check returns the
\* probe's response if the backend verb is HEAD and None for every other
\* backend verb; when the check is denied it returns no response.
C18_ReturnsProbeOnHead ==
    /\ (GenericDone /\ container # "") =>
        /\ result = "return" =>
            /\ Len(checks) = 1
            /\ Allowed(checks[1].acl, user_id, checks[1].permission)
            /\ retval # None <=> method = "HEAD"
            /\ retval # None =>
                retval[1] = ProbeResp(checks[1].obj, checks[1].acl)
        /\ result = "AccessDenied" =>
            /\ Len(checks) = 1
            /\ ~Allowed(checks[1].acl, user_id, checks[1].permission)
        /\ result # "return" => retval = None
    /\ (pc \in {d \o ".acl" : d \in Continuing} /\ container # "") =>
        /\ checks # <<>>
        /\ Allowed(LastCheck.acl, user_id, LastCheck.permission)
        /\ resp = Some(ProbeResp(LastCheck.obj, LastCheck.acl))
    /\ resp # None => (checks # <<>> /\ Allowed(LastCheck.acl, user_id, LastCheck.permission))

C18_Witness ==
    /\ GenericDone
    /\ klass = "Bucket"
    /\ method = "HEAD" /\ reqMethod = "HEAD" /\ obj # ""
    /\ result = "return"
    /\ retval # None
    /\ retval[1].object_acl = checks[1].acl

\* The last backend call issued.
LastCall == calls[Len(calls)]

\* The resource a lookup resolves to: the container for the deletion of an
\* object, the resource of the key otherwise.
ResolvedResource(key) ==
    IF key = <<"DELETE", "DELETE", "object">> THEN "container" ELSE key[3]

\* C19 as claimed: the probe is issued with the backend verb passed to the
\* generic check.
C19_ProbeWithBackendVerb ==
    (GenericDone /\ calls # <<>>) => calls[1].verb = method

\* C19 amended: the probe of the generic check is issued with HEAD whatever
\* the backend verb passed to the check, against the resolved container, and
\* names the object (with the headers) exactly when the resolved resource,
\* after the ACL_MAP override, is the object; otherwise the object name is
\* empty.
C19_ProbeWithHead ==
    /\ (GenericDone /\ calls # <<>>) =>
        /\ calls[1].verb = "HEAD"
        /\ calls[1].container = container
        /\ lookup # None /\ lookup[1].rule # None
        /\ lookup[1].key = <<reqMethod, method, ResourceOf(obj)>>
        /\ calls[1].obj =
            (IF ResolvedResource(lookup[1].key) = "object" THEN obj ELSE "")
        /\ calls[1].headers = (ResolvedResource(lookup[1].key) = "object")
    /\ (Handled /\ Dispatched # "Bucket.PUT" /\ checks # <<>>) =>
        /\ LastCall.verb = "HEAD"
        /\ LastCall.container = LastCheck.container
        /\ LastCall.container = container
        /\ LastCall.obj = LastCheck.obj
        /\ LastCall.obj # "" <=> LastCheck.resource = "object"
        /\ LastCall.headers <=> LastCheck.resource = "object"
        /\ LastCheck.resource = "object" => LastCall.obj = obj

C19_Witness ==
    /\ GenericDone
    /\ method = "DELETE" /\ reqMethod = "DELETE" /\ obj # ""
    /\ calls = <<Call("HEAD", container, "", FALSE)>>
    /\ Len(checks) = 1
    /\ result = "return"

\* C20: a PartAclHandler is in one of two modes, fixed when it is
\* constructed: on a container that ends with the multipart suffix the
\* suffix is stripped once and HEAD checks the base container with an empty
\* object name (its bucket ACL) and returns None; on any other container the
\* container is kept and HEAD checks the given object (its object ACL when
\* the object name is not empty) and returns the probe's response.
C20_PartModes ==
    (klass = "Part" /\ pc # "new") =>
        /\ check_copy_src <=> ~EndsWith(given, MULTIUPLOAD_SUFFIX)
        /\ ~check_copy_src => given = container \o MULTIUPLOAD_SUFFIX
        /\ check_copy_src => container = given
        /\ (Dispatched = "Part.HEAD" /\ ~check_copy_src) =>
            /\ \A i \in DOMAIN calls : calls[i] = Call("HEAD", container, "", FALSE)
            /\ \A i \in DOMAIN checks :
                /\ checks[i].resource = "container"
                /\ checks[i].attr = "bucket_acl"
                /\ checks[i].container = container
                /\ checks[i].obj = ""
            /\ retval = None
            /\ Done => lookup # None
        /\ (Dispatched = "Part.HEAD" /\ check_copy_src) =>
            /\ \A i \in DOMAIN calls :
                calls[i] = Call("HEAD", container, obj, obj # "")
            /\ \A i \in DOMAIN checks :
                /\ checks[i].container = container
                /\ checks[i].obj = obj
                /\ obj # "" =>
                    /\ checks[i].resource = "object"
                    /\ checks[i].attr = "object_acl"
            /\ (Done /\ result = "return" /\ container # "") =>
                /\ Len(checks) = 1
                /\ retval = Some(ProbeResp(obj, checks[1].acl))
            /\ result # "return" => retval = None

C20_Witness ==
    /\ Done
    /\ Dispatched = "Part.HEAD"
    /\ check_copy_src
    /\ container = BaseName /\ obj # ""
    /\ result = "return"
    /\ Len(checks) = 1
    /\ checks[1].attr = "object_acl"
    /\ retval = Some(ObjectResp(checks[1].acl))
====
